---- MODULE Spec2Model ----
(***************************************************************************)
(* Model of the ArrowAI realtime session client:                           *)
(*   - AIWebSocketService (frontend/src/components/chat/FileUpload.tsx),   *)
(*   - ChatContextProvider (frontend/src/contexts/ChatContext.tsx),        *)
(*   - the ChatInterface component with its message grouper                *)
(*     (unnamed/part_005).                                                 *)
(* Every browser task (a socket event, a timer, a user gesture, a React    *)
(* effect) is one action.                                                  *)
(***************************************************************************)
EXTENDS Integers, Sequences, FiniteSets, TLC

\* ---------------------------------------------------------------- bounds
MaxSockets == 6      \* sockets ever created by connect(), connection runs
MaxChats == 2        \* chats ever created by addNewChat
MaxMsgId == 5        \* messages ever appended by addMessage, turn runs
MaxSessSockets == 2  \* sockets ever created, session runs
MaxSessMsgs == 2     \* messages ever appended, session runs

\* ------------------------------------------------------ program constants
maxReconnectAttempts == 3
CleanCode == 1000
AbnormalCode == 1006

NoSocket == 0        \* this.ws === null
NoChat == 0          \* activeChat === null

NoNode == "null"     \* currentNode === null
NoQuestion == <<>>   \* clarificationQuestion === null
NoArtifact == <<>>   \* activeArtifact === null

SocketIds == 1..MaxSockets
CloseCodes == {CleanCode, AbnormalCode}
ReadyStates == {"NONE", "CONNECTING", "OPEN", "CLOSING", "CLOSED"}

VARIABLES
    \* AIWebSocketService
    ws,                 \* this.ws: NoSocket or a socket id
    readyState,         \* readyState of every socket created so far
    closeCode,          \* code the close event of a CLOSING socket will carry
    reconnectAttempts,  \* this.reconnectAttempts
    timers,             \* pending setTimeout(() => this.connect()) callbacks
    nextSock,           \* id of the next socket new WebSocket() creates
    \* ChatContextProvider
    mounted,
    activeChat,
    nextChat,
    isConnected,
    connectionStatus,
    messages,
    nextMsgId,          \* stands for the Date.now()/Math.random() of the next id
    isLoading,
    currentNode,
    clarificationQuestion,
    artifacts,
    activeArtifact,
    fileUploads,        \* the upload tasks (FileUploadState[])
    \* ChatInterface
    pendingClarification,
    view,               \* what useMemo holds: the groups of the last render
    \* FileUpload
    candidate,          \* the file handleFileSelect is looking at
    validation,         \* what validateFile returned for it
    \* AIWebSocketService.sendMessage, suspended in uploadFiles
    upload,             \* the call in flight: text, files, reads done so far
    clearTimers,        \* pending setTimeout(() => clearCompletedUploads())
    \* the run
    bound,              \* what this run may create: sockets, messages, event kinds
    auto,               \* sockets created by the reconnect timer
    snap,               \* what the UI showed when the connection broke mid-turn
    sent,               \* frames handed to WebSocket.send, with the socket
    lastSend,           \* the context function the last send gesture called, and how it ended
    autoAttempts,       \* timer-driven connect() calls since the last onopen
    deliberate          \* disconnect() called and no explicit connect since

svcVars == <<ws, readyState, closeCode, reconnectAttempts, timers, nextSock>>

connVars == <<ws, readyState, closeCode, reconnectAttempts, timers, nextSock,
              mounted, activeChat, nextChat, isConnected, connectionStatus,
              autoAttempts, deliberate, bound, auto>>

chatVars == <<messages, nextMsgId, isLoading, currentNode, clarificationQuestion,
              artifacts, activeArtifact, pendingClarification, sent, lastSend, snap>>

uploadVars == <<fileUploads, upload, clearTimers>>

pureVars == <<view, candidate, validation>>

vars == <<connVars, chatVars, uploadVars, pureVars>>

\* ------------------------------------------------------------- the service

\* isConnected() without the readyState comparison
ServiceIsConnected_NoStateCheck == ws # NoSocket

\* isConnected(): this.ws?.readyState === WebSocket.OPEN
ServiceIsConnected == ws # NoSocket /\ readyState[ws] = "OPEN"

\* the guard of sendMessage and sendClarification:
\* !this.ws || this.ws.readyState !== WebSocket.OPEN
SocketNotOpen == ws = NoSocket \/ readyState[ws] # "OPEN"

\* WebSocket.close(1000, ...): an OPEN socket starts the closing handshake and
\* its close event carries the code; closing a CONNECTING socket fails the
\* connection (close event 1006); a CLOSING or CLOSED socket is left alone.
WsClose(rs, s) ==
    IF rs[s] \in {"OPEN", "CONNECTING"} THEN [rs EXCEPT ![s] = "CLOSING"] ELSE rs

WsCloseCode(cc, rs, s) ==
    IF rs[s] = "OPEN" THEN [cc EXCEPT ![s] = CleanCode]
    ELSE IF rs[s] = "CONNECTING" THEN [cc EXCEPT ![s] = AbnormalCode]
    ELSE cc

\* disconnect(): if (this.ws) { this.ws.close(1000); this.ws = null }
disconnectRS(rs, w) == IF w # NoSocket THEN WsClose(rs, w) ELSE rs
disconnectCC(cc, rs, w) == IF w # NoSocket THEN WsCloseCode(cc, rs, w) ELSE cc

\* connect(): this.ws = new WebSocket(url) with the four handlers attached
connectRS(rs) == [rs EXCEPT ![nextSock] = "CONNECTING"]

\* ------------------------------------------------------------ message texts
\* A text is a sequence of tokens; the markers the handlers put in front of a
\* payload are tokens of their own, and String.includes is membership.
OutputMarker == "OUT"            \* '✅ **Output:**'
StderrMarker == "ERR"            \* '❌ **Error:**'
CodeMarker == "CODE"             \* '💻 **Code Generated:**'
TodoMarker == "TODO"             \* '📋 **Todo List Generated:**'
ArtifactMarker == "ART"          \* '📎 **Artifact'
ClarifyNeededMarker == "NEEDED"  \* '**Clarification needed:**'
ClarificationMarker == "REPLY"   \* '**Clarification:**'
\* onError using the text onStderr puts in front of its payload
ErrorMarker_AsStderr == "ERR"

ErrorMarker == "WARN"            \* '⚠️ **Error:**'

includes(text, marker) == \E i \in 1..Len(text) : text[i] = marker

UserTexts == {<<"build report">>}
Texts == {<<"done">>}
Questions == {<<"which region?">>}
NodeNames == {"research", "forecast"}
MaxItems == 1                    \* items of one sandbox.artifacts event

NoMsg == [id |-> 0, isUser |-> FALSE, text |-> <<>>, hasArtifact |-> FALSE]

\* what the UI reads from the context
UIState ==
    [messages |-> messages, isLoading |-> isLoading, isConnected |-> isConnected,
     connectionStatus |-> connectionStatus, currentNode |-> currentNode,
     clarificationQuestion |-> clarificationQuestion,
     artifacts |-> artifacts, activeArtifact |-> activeArtifact,
     fileUploads |-> fileUploads]

NoSnap == <<>>

\* ------------------------------------------------------------------ files
\* A file name is the sequence of the pieces name.split('.') returns, so
\* "a.py" is <<"a", "py">> and a name without a dot has one piece.
toLowerCase(piece) ==
    CASE piece = "PY" -> "py"
      [] piece = "Makefile" -> "makefile"
      [] OTHER -> piece

\* getSupportedFileTypes(): each entry is the dot and what follows it
getSupportedFileTypes ==
    {<<".", x>> : x \in {"txt", "md", "csv", "json", "xml", "yaml", "yml",
                         "js", "ts", "jsx", "tsx", "py", "java", "cpp", "c", "h",
                         "css", "html", "php", "rb", "go", "rs", "swift", "kt",
                         "xlsx", "xls", "pdf",
                         "jpg", "jpeg", "png", "gif", "bmp", "svg", "webp",
                         "zip", "tar", "gz"}}

\* isFileTypeSupported(file): '.' + file.name.split('.').pop()?.toLowerCase()
isFileTypeSupported(file) ==
    LET extension == <<".", toLowerCase(file.name[Len(file.name)])>>
    IN extension \in getSupportedFileTypes

\* getMaxFileSize(), in bytes
getMaxFileSize == 10 * 1024 * 1024

NoError == <<>>      \* error === undefined

\* validateFile(file)
validateFile(file) ==
    IF ~isFileTypeSupported(file)
    THEN [valid |-> FALSE, error |-> <<"File type not supported", file.name>>]
    ELSE IF file.size > getMaxFileSize
    THEN [valid |-> FALSE, error |-> <<"File too large", file.name>>]
    ELSE [valid |-> TRUE, error |-> NoError]

\* the files the user can pick for a message: File objects, two of them with
\* the same name
File(ref, name, size) == [ref |-> ref, name |-> name, size |-> size]

Files ==
    {File(1, <<"a", "py">>, 1024), File(2, <<"a", "py">>, 2048), File(3, <<"b", "txt">>, 1024)}

MaxBatch == 2        \* files attached to one message

\* a selection holds each File object once
Batches ==
    {b \in UNION {[1..n -> Files] : n \in 0..MaxBatch} :
        \A i, j \in DOMAIN b : b[i] = b[j] => i = j}

\* the files handleFileSelect can be handed
CandidateNames ==
    {<<"a", "py">>, <<"a", "PY">>, <<"a", "exe">>, <<"a", "txt">>, <<"a", "tar", "gz">>,
     <<"a", "py", "exe">>, <<"Makefile">>, <<"py">>, <<"a", "">>, <<"", "gitignore">>}

CandidateSizes ==
    {0, 1024, 5 * 1024 * 1024, getMaxFileSize - 1, getMaxFileSize, getMaxFileSize + 1,
     11 * 1024 * 1024}

CandidateFiles == {File(0, n, z) : n \in CandidateNames, z \in CandidateSizes}

NoFile == <<>>
NoValidation == <<>>

\* an upload task of sendMessage's newUploads; t stands for Date.now()
NewUpload(file, t) ==
    [id |-> <<t, file.name>>, file |-> file, progress |-> 0, status |-> "uploading",
     error |-> NoError]

\* the three upload callbacks of the context, on the task list
onFileUploadProgress(prev, progress, fileName) ==
    [i \in DOMAIN prev |->
        IF prev[i].file.name = fileName
        THEN [prev[i] EXCEPT !.progress = progress, !.status = "uploading"]
        ELSE prev[i]]

onFileUploadComplete(prev, fileName) ==
    [i \in DOMAIN prev |->
        IF prev[i].file.name = fileName
        THEN [prev[i] EXCEPT !.progress = 100, !.status = "completed"]
        ELSE prev[i]]

onFileUploadError(prev, error, fileName) ==
    [i \in DOMAIN prev |->
        IF prev[i].file.name = fileName
        THEN [prev[i] EXCEPT !.status = "error", !.error = error]
        ELSE prev[i]]

\* clearCompletedUploads
clearCompletedUploads(prev) == SelectSeq(prev, LAMBDA u : u.status # "completed")

\* processFile's error for a read that failed: the message names the file and
\* interpolates what FileReader.onerror was called with, a ProgressEvent
ReadErrorMessage(file) == <<"Failed to read file", file.name, "[object ProgressEvent]">>

\* a failed read that discards what the batch has read so far
processedFiles_LostOnError(processed, file, ok) ==
    IF ok THEN Append(processed, file) ELSE <<>>

\* processedFiles of uploadFiles after one file: push on success; the catch
\* leaves the array alone
processedFiles(processed, file, ok) ==
    IF ok THEN Append(processed, file) ELSE processed

NoUpload == <<>>     \* no sendMessage call is suspended in uploadFiles

\* ------------------------------------------------------- context callbacks
\* setState of an unmounted provider is ignored
onConnect ==
    IF mounted
    THEN isConnected' = TRUE /\ connectionStatus' = "connected"
    ELSE UNCHANGED <<isConnected, connectionStatus>>

onDisconnect ==
    IF mounted
    THEN isConnected' = FALSE /\ connectionStatus' = "disconnected"
    ELSE UNCHANGED <<isConnected, connectionStatus>>

\* ws.onclose: onDisconnect, then schedule a reconnect unless the close was
\* clean or the attempts are used up
ScheduleReconnect(code) ==
    code # CleanCode /\ reconnectAttempts < maxReconnectAttempts

onclose(code) ==
    /\ onDisconnect
    /\ IF ScheduleReconnect(code)
       THEN /\ reconnectAttempts' = reconnectAttempts + 1
            /\ timers' = timers + 1
       ELSE UNCHANGED <<reconnectAttempts, timers>>

\* addMessage for each element of datas in turn; a message with an artifact
\* and a truthy artifactContent also appends the artifact (addArtifact gives it its own id) and selects
\* the id addMessage built
NewMessage(n, data) ==
    [id |-> n, isUser |-> data.isUser, text |-> data.text, hasArtifact |-> data.hasArtifact]

NewArtifacts(n, datas) ==
    LET F[i \in 0..Len(datas)] ==
          IF i = 0 THEN <<>>
          ELSE IF datas[i].hasArtifact /\ datas[i].artifactContent
               THEN Append(F[i - 1], [id |-> <<"artifact", n + i - 1, "random">>,
                                      messageId |-> n + i - 1])
               ELSE F[i - 1]
    IN F[Len(datas)]

addMessage(datas) ==
    /\ nextMsgId + Len(datas) - 1 <= bound.msgs
    /\ messages' = messages \o [i \in 1..Len(datas) |-> NewMessage(nextMsgId + i - 1, datas[i])]
    /\ nextMsgId' = nextMsgId + Len(datas)
    /\ LET new == NewArtifacts(nextMsgId, datas)
       IN /\ artifacts' = artifacts \o new
          /\ activeArtifact' = IF new = <<>> THEN activeArtifact
                               ELSE <<"artifact", new[Len(new)].messageId>>

Plain(text) ==
    [isUser |-> FALSE, text |-> text, hasArtifact |-> FALSE, artifactContent |-> FALSE]
WithArtifact(text) ==
    [isUser |-> FALSE, text |-> text, hasArtifact |-> TRUE, artifactContent |-> TRUE]
\* hasArtifact: true with an artifactContent that is undefined
WithoutContent(text) ==
    [isUser |-> FALSE, text |-> text, hasArtifact |-> TRUE, artifactContent |-> FALSE]
FromUser(text) ==
    [isUser |-> TRUE, text |-> text, hasArtifact |-> FALSE, artifactContent |-> FALSE]

\* a payload field that is absent from the frame reads as undefined
MissingName == "undefined"
MissingText == <<"undefined">>
MissingItems == -1

FileNames == {f.name : f \in Files}

\* a frame JSON.parse rejects
NotJSON == [event |-> "(not JSON)", arg |-> <<>>]

UploadEventKinds == {"file_upload_progress", "file_upload_complete", "file_upload_error"}

\* the events the peer can send
Events ==
    [event : {"node"}, arg : NodeNames]
    \cup [event : {"clarify"}, arg : Questions]
    \cup [event : {"todos", "code", "sandbox.stdout", "sandbox.stderr", "answer", "error"},
          arg : Texts]
    \cup [event : {"sandbox.stdout", "sandbox.stderr"}, arg : {<<>>}]
    \cup [event : {"sandbox.artifacts"}, arg : 0..MaxItems]
    \cup [event : {"unknown"}, arg : Texts]
    \cup [event : {"file_upload_progress"}, arg : [progress : {50}, fileName : FileNames]]
    \cup [event : {"file_upload_complete"}, arg : [fileName : FileNames]]
    \cup [event : {"file_upload_error"}, arg : [error : {<<"server">>}, fileName : FileNames]]
    \cup [event : {"node"}, arg : {MissingName}]
    \cup [event : {"clarify", "todos", "code", "sandbox.stdout", "sandbox.stderr", "answer",
                   "error"},
          arg : {MissingText}]
    \cup [event : {"sandbox.artifacts"}, arg : {MissingItems}]
    \cup {NotJSON}

\* a frame with a known discriminator and without its payload field
Malformed(e) ==
    CASE e.event = "node" -> e.arg = MissingName
      [] e.event = "sandbox.artifacts" -> e.arg = MissingItems
      [] e.event \in {"clarify", "todos", "code", "sandbox.stdout", "sandbox.stderr",
                      "answer", "error"} -> e.arg = MissingText
      [] OTHER -> FALSE

\* a frame that is logged as a failure and ends the wait for the answer
NoCallback_StopsWaiting ==
    /\ isLoading' = FALSE
    /\ UNCHANGED <<messages, nextMsgId, artifacts, activeArtifact,
                   clarificationQuestion, currentNode>>

\* the catch of onmessage and the default case of handleMessage: console
\* output and no callback
NoCallback ==
    UNCHANGED <<messages, nextMsgId, artifacts, activeArtifact,
                isLoading, clarificationQuestion, currentNode>>

\* handleMessage(data) and the callback it dispatches to
handleMessage(e) ==
    /\ CASE e.event = "node" ->
           /\ currentNode' = e.arg
           /\ UNCHANGED <<messages, nextMsgId, artifacts, activeArtifact,
                          isLoading, clarificationQuestion>>
      [] e.event = "clarify" ->
           \* an undefined question is falsy, as null is
           /\ clarificationQuestion' = IF e.arg = MissingText THEN NoQuestion ELSE e.arg
           /\ isLoading' = FALSE
           /\ UNCHANGED <<messages, nextMsgId, artifacts, activeArtifact, currentNode>>
      [] e.event = "todos" ->
           /\ IF e.arg = MissingText
              THEN addMessage(<<WithoutContent(<<TodoMarker>> \o e.arg)>>)
              ELSE addMessage(<<WithArtifact(<<TodoMarker>> \o e.arg)>>)
           /\ UNCHANGED <<isLoading, clarificationQuestion, currentNode>>
      [] e.event = "code" ->
           /\ IF e.arg = MissingText
              THEN addMessage(<<WithoutContent(<<CodeMarker>>)>>)
              ELSE addMessage(<<WithArtifact(<<CodeMarker>>)>>)
           /\ UNCHANGED <<isLoading, clarificationQuestion, currentNode>>
      [] e.event = "sandbox.stdout" ->
           \* text.trim() of an undefined text throws; onmessage catches it
           /\ IF e.arg # <<>> /\ e.arg # MissingText
              THEN addMessage(<<Plain(<<OutputMarker>> \o e.arg)>>)
              ELSE UNCHANGED <<messages, nextMsgId, artifacts, activeArtifact>>
           /\ UNCHANGED <<isLoading, clarificationQuestion, currentNode>>
      [] e.event = "sandbox.stderr" ->
           /\ IF e.arg # <<>> /\ e.arg # MissingText
              THEN addMessage(<<Plain(<<StderrMarker>> \o e.arg)>>)
              ELSE UNCHANGED <<messages, nextMsgId, artifacts, activeArtifact>>
           /\ UNCHANGED <<isLoading, clarificationQuestion, currentNode>>
      [] e.event = "sandbox.artifacts" ->
           \* items && items.length > 0
           /\ addMessage([i \in 1..e.arg |-> WithArtifact(<<ArtifactMarker>>)])
           /\ UNCHANGED <<isLoading, clarificationQuestion, currentNode>>
      [] e.event = "answer" ->
           /\ addMessage(<<Plain(e.arg)>>)
           /\ isLoading' = FALSE
           /\ currentNode' = NoNode
           /\ UNCHANGED clarificationQuestion
      [] e.event = "error" ->
           /\ addMessage(<<Plain(<<ErrorMarker>> \o e.arg)>>)
           /\ isLoading' = FALSE
           /\ currentNode' = NoNode
           /\ UNCHANGED clarificationQuestion
      [] e.event \in UploadEventKinds ->
           UNCHANGED <<messages, nextMsgId, artifacts, activeArtifact,
                       isLoading, clarificationQuestion, currentNode>>
      [] OTHER -> NoCallback
    /\ fileUploads' =
         CASE e.event = "file_upload_progress" ->
                onFileUploadProgress(fileUploads, e.arg.progress, e.arg.fileName)
           [] e.event = "file_upload_complete" ->
                onFileUploadComplete(fileUploads, e.arg.fileName)
           [] e.event = "file_upload_error" ->
                onFileUploadError(fileUploads, e.arg.error, e.arg.fileName)
           [] OTHER -> fileUploads

\* ------------------------------------------------------------- the grouper
\* a group whose id also carries the number of the render that built it
NewGroup_Stamped(id, user) ==
    [id |-> <<id, Len(view)>>, userMessage |-> user, executionSteps |-> <<>>,
     finalMessage |-> NoMsg, artifacts |-> <<>>, isActive |-> FALSE]

NewGroup(id, user) ==
    [id |-> id, userMessage |-> user, executionSteps |-> <<>>,
     finalMessage |-> NoMsg, artifacts |-> <<>>, isActive |-> FALSE]

isExecutionStep(m) ==
    \/ includes(m.text, OutputMarker)
    \/ includes(m.text, StderrMarker)
    \/ includes(m.text, CodeMarker)
    \/ includes(m.text, TodoMarker)
    \/ includes(m.text, ArtifactMarker)

isClarificationMessage(m) == includes(m.text, ClarifyNeededMarker)

StepIds(g) == {g.executionSteps[i].id : i \in 1..Len(g.executionSteps)}

\* the body of messages.forEach, on the pair (groups, currentGroup)
groupStep(st, m, arts) ==
    IF m.isUser
    THEN [groups |-> Append(st.groups, st.cur),
          cur |-> NewGroup(<<"group", m.id>>, m)]
    ELSE IF isExecutionStep(m)
    THEN [st EXCEPT !.cur.executionSteps = Append(@, m), !.cur.isActive = TRUE]
    ELSE IF ~isClarificationMessage(m)
    THEN [st EXCEPT !.cur.finalMessage = m,
                    !.cur.isActive = FALSE,
                    !.cur.artifacts =
                        SelectSeq(arts, LAMBDA a : a.messageId \in StepIds(st.cur)
                                                   \/ a.messageId = m.id)]
    ELSE [st EXCEPT !.groups =
              Append(@, [NewGroup(<<"clarification", m.id>>, NoMsg) EXCEPT !.finalMessage = m])]

groupedMessages(msgs, arts) ==
    LET F[i \in 0..Len(msgs)] ==
          IF i = 0 THEN [groups |-> <<>>, cur |-> NewGroup(<<"", 0>>, NoMsg)]
          ELSE groupStep(F[i - 1], msgs[i], arts)
        st == F[Len(msgs)]
        cur == st.cur
    IN IF cur.userMessage # NoMsg \/ Len(cur.executionSteps) > 0 \/ cur.finalMessage # NoMsg
       THEN Append(st.groups,
                   IF Len(cur.executionSteps) > 0 /\ cur.finalMessage = NoMsg
                   THEN [cur EXCEPT !.isActive = TRUE] ELSE cur)
       ELSE st.groups

Groups == groupedMessages(messages, artifacts)

\* the steps prop of a group's ExecutionStatus, numbered from the array index
\* of the step, which starts at 0
steps_FromZero(g) ==
    [index \in 1..Len(g.executionSteps) |->
        [id |-> g.executionSteps[index].id, message |-> g.executionSteps[index],
         stepNumber |-> index - 1]]

\* the steps prop of a group's ExecutionStatus: stepNumber is the array index
\* of the step plus one, which is its position counted from 1
steps(g) ==
    [index \in 1..Len(g.executionSteps) |->
        [id |-> g.executionSteps[index].id, message |-> g.executionSteps[index],
         stepNumber |-> (index - 1) + 1]]

\* the isRunning prop of a group's ExecutionStatus, which is rendered when the
\* group has steps
isRunning(g) ==
    /\ Len(g.executionSteps) > 0
    /\ (isLoading /\ g.isActive) \/ (g.isActive /\ g.finalMessage = NoMsg)

\* ------------------------------------------------------------------ Init
InitCommon(b) ==
    /\ ws = NoSocket
    /\ readyState = [s \in SocketIds |-> "NONE"]
    /\ closeCode = [s \in SocketIds |-> CleanCode]
    /\ reconnectAttempts = 0
    /\ timers = 0
    /\ nextSock = 1
    /\ mounted = TRUE
    /\ activeChat = NoChat
    /\ nextChat = 1
    /\ isConnected = FALSE
    /\ connectionStatus = "disconnected"
    /\ isLoading = FALSE
    /\ currentNode = NoNode
    /\ clarificationQuestion = NoQuestion
    /\ activeArtifact = NoArtifact
    /\ pendingClarification = FALSE
    /\ bound = b
    /\ auto = {}
    /\ snap = NoSnap
    /\ sent = <<>>
    /\ lastSend = <<"none", "none">>
    /\ autoAttempts = 0
    /\ deliberate = FALSE
    /\ fileUploads = <<>>
    /\ upload = NoUpload
    /\ clearTimers = 0
    /\ view = <<>>
    /\ validation = NoValidation

\* the state after construction: ChatContextProvider and ChatInterface have
\* rendered once, the service exists and has no socket
InitWith(b) ==
    /\ InitCommon(b)
    /\ messages = <<>>
    /\ nextMsgId = 1
    /\ artifacts = <<>>
    /\ candidate = NoFile

\* --------------------------------------------------------------- actions

\* the clarification effect of ChatInterface has something to do
EffectPending ==
    \/ clarificationQuestion # NoQuestion /\ ~pendingClarification
    \/ clarificationQuestion = NoQuestion /\ pendingClarification

\* the effect on [activeChat]: connectToChat
connectToChat ==
    /\ nextSock <= bound.socks
    /\ LET rs1 == IF ServiceIsConnected THEN disconnectRS(readyState, ws) ELSE readyState
           cc1 == IF ServiceIsConnected THEN disconnectCC(closeCode, readyState, ws) ELSE closeCode
       IN /\ readyState' = [rs1 EXCEPT ![nextSock] = "CONNECTING"]
          /\ closeCode' = cc1
    /\ ws' = nextSock
    /\ nextSock' = nextSock + 1
    /\ connectionStatus' = "connecting"
    /\ deliberate' = FALSE
    /\ snap' = NoSnap
    /\ UNCHANGED <<reconnectAttempts, timers, isConnected, autoAttempts, auto>>

\* addNewChat: a fresh chat id becomes active, which runs connectToChat
addNewChat ==
    /\ mounted /\ ~EffectPending
    /\ nextChat <= bound.chats
    /\ activeChat' = nextChat
    /\ nextChat' = nextChat + 1
    /\ messages' = <<>>
    /\ clarificationQuestion' = NoQuestion
    /\ currentNode' = NoNode
    /\ fileUploads' = <<>>
    /\ connectToChat
    /\ UNCHANGED <<mounted, bound, nextMsgId, isLoading, artifacts, activeArtifact,
                   pendingClarification, sent, lastSend, upload, clearTimers, pureVars>>

\* handleSetActiveChat(chatId): the effect runs only when the id changes; the
\* reset branch runs only when the log is empty already
handleSetActiveChat(c) ==
    /\ mounted /\ ~EffectPending
    /\ c \in 1..(nextChat - 1)
    /\ c # activeChat
    /\ activeChat' = c
    /\ IF messages = <<>>
       THEN clarificationQuestion' = NoQuestion /\ currentNode' = NoNode
       ELSE UNCHANGED <<clarificationQuestion, currentNode>>
    /\ fileUploads' = <<>>
    /\ connectToChat
    /\ UNCHANGED <<mounted, bound, nextChat, messages, nextMsgId, isLoading, artifacts,
                   activeArtifact, pendingClarification, sent, lastSend, upload,
                   clearTimers, pureVars>>

\* ws.onopen
SocketOpen(s) ==
    /\ readyState[s] = "CONNECTING"
    /\ readyState' = [readyState EXCEPT ![s] = "OPEN"]
    /\ reconnectAttempts' = 0
    /\ onConnect
    /\ autoAttempts' = 0
    /\ UNCHANGED <<ws, closeCode, timers, nextSock, mounted, activeChat, nextChat,
                   deliberate, bound, auto, chatVars, uploadVars, pureVars>>

closeVars == <<ws, closeCode, nextSock, mounted, activeChat, nextChat, autoAttempts,
               deliberate, bound, auto, messages, nextMsgId, isLoading, currentNode,
               clarificationQuestion, artifacts, activeArtifact, pendingClarification,
               sent, lastSend, uploadVars, pureVars>>

\* the connection attempt fails: ws.onerror (reject; the catch of
\* connectToChat sets 'error') and ws.onclose(1006) run in the same task, so
\* the status the task leaves is the one onDisconnect sets
SocketFail(s) ==
    /\ readyState[s] = "CONNECTING"
    /\ readyState' = [readyState EXCEPT ![s] = "CLOSED"]
    /\ onclose(AbnormalCode)
    /\ UNCHANGED <<closeVars, snap>>

\* an open connection is closed by the peer or the network
SocketDrop(s, code) ==
    /\ readyState[s] = "OPEN"
    /\ readyState' = [readyState EXCEPT ![s] = "CLOSED"]
    /\ onclose(code)
    /\ snap' = IF mounted /\ s = ws /\ code # CleanCode /\ isLoading
               THEN UIState ELSE snap
    /\ UNCHANGED closeVars

\* the close event of a socket closed by disconnect()
SocketClosed(s) ==
    /\ readyState[s] = "CLOSING"
    /\ readyState' = [readyState EXCEPT ![s] = "CLOSED"]
    /\ onclose(closeCode[s])
    /\ UNCHANGED <<closeVars, snap>>

\* the reconnect timer fires: this.connect()
ReconnectTimer ==
    /\ timers > 0
    /\ nextSock <= bound.socks
    /\ timers' = timers - 1
    /\ readyState' = connectRS(readyState)
    /\ ws' = nextSock
    /\ nextSock' = nextSock + 1
    /\ auto' = auto \cup {nextSock}
    /\ autoAttempts' = autoAttempts + 1
    /\ UNCHANGED <<closeCode, reconnectAttempts, mounted, activeChat, nextChat,
                   isConnected, connectionStatus, deliberate, bound, chatVars,
                   uploadVars, pureVars>>

\* cleanup of the provider's first effect: wsService.current?.disconnect()
Unmount ==
    /\ mounted
    /\ mounted' = FALSE
    /\ readyState' = disconnectRS(readyState, ws)
    /\ closeCode' = disconnectCC(closeCode, readyState, ws)
    /\ ws' = NoSocket
    /\ deliberate' = TRUE
    /\ UNCHANGED <<reconnectAttempts, timers, nextSock, activeChat, nextChat,
                   isConnected, connectionStatus, autoAttempts, bound, auto, chatVars,
                   uploadVars, pureVars>>

\* ws.onmessage of any socket that is open, current or not: JSON.parse, then
\* handleMessage; what either throws is caught and logged
DeliverEvent(s, e) ==
    /\ mounted
    /\ readyState[s] = "OPEN"
    /\ e.event \in bound.events
    /\ Malformed(e) => bound.malformed
    /\ bound.peer = "replies" => isLoading
    /\ IF e.event = NotJSON.event
       THEN NoCallback /\ UNCHANGED fileUploads
       ELSE handleMessage(e)
    /\ snap' = NoSnap
    /\ UNCHANGED <<svcVars, mounted, activeChat, nextChat, isConnected, connectionStatus,
                   autoAttempts, deliberate, bound, auto, pendingClarification,
                   sent, lastSend, upload, clearTimers, pureVars>>

UploadedFilesMarker == "FILES"   \* '**Uploaded files:**' and the list of names

\* a first progress callback that reports the file as done already
ProgressCall_Done(file) == [cb |-> "progress", name |-> file.name, arg |-> <<100>>]

\* the onFileUploadProgress(0, name) uploadFiles makes before it reads a file
ProgressCall(file) == [cb |-> "progress", name |-> file.name, arg |-> <<0>>]

\* sendMessage(text, files) of the context, and the service call it makes up
\* to its first await
sendMessage(text, files) ==
    IF ~ServiceIsConnected
    THEN /\ lastSend' = <<"sendMessage", "error">>  \* throw new Error('Not connected to AI service')
         /\ UNCHANGED <<messages, nextMsgId, artifacts, activeArtifact, isLoading,
                        clarificationQuestion, sent, fileUploads, upload>>
    ELSE IF \E i \in DOMAIN files : ~validateFile(files[i]).valid
    THEN /\ lastSend' = <<"sendMessage", "error">>  \* throw new Error(validation.error)
         /\ UNCHANGED <<messages, nextMsgId, artifacts, activeArtifact, isLoading,
                        clarificationQuestion, sent, fileUploads, upload>>
    ELSE /\ addMessage(<<FromUser(IF files = <<>> THEN text
                                  ELSE text \o <<UploadedFilesMarker>>)>>)
         /\ isLoading' = TRUE
         /\ clarificationQuestion' = NoQuestion
         \* the service call is not awaited: its rejection reaches nobody
         /\ IF files = <<>>
            THEN /\ sent' = IF SocketNotOpen THEN sent
                            ELSE Append(sent, [sock |-> ws, text |-> text, files |-> <<>>])
                 /\ UNCHANGED <<fileUploads, upload>>
            ELSE /\ fileUploads' =
                      onFileUploadProgress(
                          fileUploads \o [i \in 1..Len(files) |-> NewUpload(files[i], nextMsgId)],
                          0, files[1].name)
                 /\ upload' = IF SocketNotOpen THEN upload
                              ELSE [sock |-> ws, text |-> text, files |-> files, next |-> 1,
                                    processed |-> <<>>, results |-> <<>>,
                                    calls |-> <<ProgressCall(files[1])>>, done |-> FALSE,
                                    promise |-> "pending"]
                 /\ UNCHANGED sent
         /\ lastSend' = <<"sendMessage", "ok">>

\* sendClarification(text) of the context, and the service call it makes
sendClarification(text) ==
    IF ~ServiceIsConnected
    THEN /\ lastSend' = <<"sendClarification", "error">>
         /\ UNCHANGED <<messages, nextMsgId, artifacts, activeArtifact, isLoading,
                        clarificationQuestion, sent>>
    ELSE /\ addMessage(<<FromUser(<<ClarificationMarker>> \o text)>>)
         /\ clarificationQuestion' = NoQuestion
         \* the service throws synchronously; the catch resets isLoading
         /\ isLoading' = ~SocketNotOpen
         /\ sent' = IF SocketNotOpen THEN sent
                    ELSE Append(sent, [sock |-> ws, text |-> text, files |-> <<>>])
         /\ lastSend' = <<"sendClarification", "ok">>

\* handleSendMessage of ChatInterface with a non-empty input and the selected
\* files; a clarification reply leaves the files out. A message with files
\* is sent only when no earlier one is still reading its files. The timer that
\* clears completed uploads is counted in the runs that attach files: in
\* the others the task list stays empty and the timer's task changes nothing.
handleSendMessage(text, files) ==
    /\ mounted /\ ~EffectPending
    /\ ~isLoading /\ isConnected
    /\ files \in bound.batches
    /\ files # <<>> => (IF upload = NoUpload THEN TRUE ELSE upload.done)
    /\ IF clarificationQuestion # NoQuestion
       THEN sendClarification(text) /\ UNCHANGED <<fileUploads, upload>>
       ELSE sendMessage(text, files)
    /\ clearTimers' = IF lastSend'[2] = "ok" /\ bound.batches # {<<>>}
                      THEN clearTimers + 1 ELSE clearTimers
    /\ snap' = NoSnap
    /\ UNCHANGED <<svcVars, mounted, activeChat, nextChat, isConnected, connectionStatus,
                   autoAttempts, deliberate, bound, auto, currentNode,
                   pendingClarification, pureVars>>

\* a FileReader of uploadFiles finishes, with onload (ok) or onerror: the
\* callbacks for that file, then either the progress callback of the next
\* file or, after the last one, the rest of the service's sendMessage:
\* this.ws.send(...), which throws on a null or CONNECTING socket and sends
\* nothing on a CLOSING or CLOSED one
FileRead(ok) ==
    /\ upload # NoUpload
    /\ ~upload.done
    /\ LET file == upload.files[upload.next]
           last == upload.next = Len(upload.files)
           after == IF ok
                    THEN onFileUploadComplete(
                             onFileUploadProgress(fileUploads, 100, file.name), file.name)
                    ELSE onFileUploadError(fileUploads, ReadErrorMessage(file), file.name)
           calls == IF ok
                    THEN <<[cb |-> "progress", name |-> file.name, arg |-> <<100>>],
                           [cb |-> "complete", name |-> file.name, arg |-> <<>>]>>
                    ELSE <<[cb |-> "error", name |-> file.name, arg |-> ReadErrorMessage(file)]>>
           processed == processedFiles(upload.processed, file, ok)
       IN /\ fileUploads' =
                IF ~mounted THEN fileUploads
                ELSE IF last THEN after
                ELSE onFileUploadProgress(after, 0, upload.files[upload.next + 1].name)
          /\ upload' = [upload EXCEPT
                            !.next = @ + 1,
                            !.processed = processed,
                            !.results = Append(@, ok),
                            !.calls = @ \o calls \o
                                      (IF last THEN <<>>
                                       ELSE <<ProgressCall(upload.files[upload.next + 1])>>),
                            !.done = last,
                            !.promise = IF ~last THEN @
                                        ELSE IF ws = NoSocket \/ readyState[ws] = "CONNECTING"
                                        THEN "rejected"
                                        ELSE "fulfilled"]
          /\ sent' = IF last /\ ~SocketNotOpen
                     THEN Append(sent, [sock |-> ws, text |-> upload.text,
                                        files |-> processed])
                     ELSE sent
    /\ snap' = NoSnap
    /\ UNCHANGED <<connVars, messages, nextMsgId, isLoading, currentNode,
                   clarificationQuestion, artifacts, activeArtifact,
                   pendingClarification, lastSend, clearTimers, pureVars>>

\* the timer handleSendMessage sets after a send: clearCompletedUploads()
ClearCompletedUploads ==
    /\ clearTimers > 0
    /\ clearTimers' = clearTimers - 1
    /\ fileUploads' = IF mounted THEN clearCompletedUploads(fileUploads) ELSE fileUploads
    /\ UNCHANGED <<connVars, chatVars, upload, pureVars>>

\* handleFileSelect on one file: validateFile decides whether it is kept
handleFileSelect ==
    /\ candidate # NoFile
    /\ validation = NoValidation
    /\ validation' = validateFile(candidate)
    /\ UNCHANGED <<connVars, chatVars, uploadVars, view, candidate>>

MaxRenders == 2      \* times the grouper runs on one log

\* a render of ChatInterface in which useMemo runs the grouper; forEach, filter
\* and some read the log and the artifact list and write to neither
Render ==
    /\ Len(view) < MaxRenders
    /\ view' = Append(view, groupedMessages(messages, artifacts))
    /\ UNCHANGED <<connVars, chatVars, uploadVars, candidate, validation>>

\* the effect on [clarificationQuestion, pendingClarification] of ChatInterface
ClarificationEffect ==
    /\ mounted
    /\ EffectPending
    /\ IF clarificationQuestion # NoQuestion
       THEN /\ pendingClarification' = TRUE
            /\ addMessage(<<Plain(<<ClarifyNeededMarker>> \o clarificationQuestion)>>)
       ELSE /\ pendingClarification' = FALSE
            /\ UNCHANGED <<messages, nextMsgId, artifacts, activeArtifact>>
    /\ UNCHANGED <<svcVars, mounted, activeChat, nextChat, isConnected, connectionStatus,
                   autoAttempts, deliberate, bound, auto, isLoading, currentNode,
                   clarificationQuestion, sent, lastSend, snap, uploadVars, pureVars>>

\* ------------------------------------------------------------------ claims
LiveSockets == {s \in SocketIds : readyState[s] \in {"CONNECTING", "OPEN"}}

LastGroup(gs) == gs[Len(gs)]

\* a group shown as running: marked active and without a final message
Open(g) == g.isActive /\ g.finalMessage = NoMsg

OpenGroups(gs) == {i \in 1..Len(gs) : Open(gs[i])}

\* C1: between two successful opens the reconnect timer calls connect() at
\* most maxReconnectAttempts times.
C1_BoundedAttempts == autoAttempts <= maxReconnectAttempts

\* C2: once disconnect() has been called and no explicit connect has followed,
\* no reconnect timer opens a socket.
C2_NoReconnectAfterDisconnect == [][deliberate => ~ReconnectTimer]_vars

\* C3: at most one socket with handlers attached is CONNECTING or OPEN.
C3_SingleSocket == Cardinality(LiveSockets) <= 1

\* C4: the status becomes connected only from connecting (or reconnecting), and
\* a close that schedules a retry leaves the status reconnecting.
C4_StatusEdges ==
    [][/\ (connectionStatus' = "connected" /\ connectionStatus # "connected")
            => connectionStatus \in {"connecting", "reconnecting"}
       /\ (mounted /\ timers' > timers) => connectionStatus' = "reconnecting"]_vars

\* the retries are used up: three timer-driven attempts since the last open
\* have failed, no timer is pending and no socket is alive
RetriesExhausted ==
    /\ mounted
    /\ reconnectAttempts = maxReconnectAttempts
    /\ autoAttempts = maxReconnectAttempts
    /\ timers = 0
    /\ \A s \in SocketIds : readyState[s] \in {"NONE", "CLOSED"}

\* C5: when the retries are used up the status shown is the failed one.
C5_FailedState == RetriesExhausted => connectionStatus \in {"failed", "error"}

\* the user sends the input
SendGesture == \E text \in UserTexts, files \in Batches : handleSendMessage(text, files)

\* C6: a send gesture made while the service's socket is absent or not OPEN
\* ends in an error and changes neither the frames sent nor the log; a frame
\* is only ever sent by a send gesture, on the current socket, which is OPEN.
C6_SendFailsFast ==
    [][/\ (SendGesture /\ (ws = NoSocket \/ readyState[ws] # "OPEN"))
            => (lastSend'[2] = "error" /\ sent' = sent /\ messages' = messages
                /\ isLoading' = isLoading)
       /\ sent' # sent
            => /\ SendGesture
               /\ ws # NoSocket /\ readyState[ws] = "OPEN"
               /\ Len(sent') = Len(sent) + 1
               /\ sent'[Len(sent')].sock = ws]_vars

\* a clarification reply was refused, and the socket is not open
C6_Witness ==
    /\ lastSend = <<"sendClarification", "error">>
    /\ (ws = NoSocket \/ readyState[ws] # "OPEN")

\* the last group is a turn of the user that has no final message
TurnIsOpen ==
    /\ Groups # <<>>
    /\ LastGroup(Groups).userMessage # NoMsg
    /\ LastGroup(Groups).finalMessage = NoMsg

\* ws.onmessage of some socket with a node event
NodeEvent ==
    \E s \in SocketIds, n \in NodeNames : DeliverEvent(s, [event |-> "node", arg |-> n])

\* C7: a node event received while a turn is open appends one execution step
\* to that turn and leaves it without a final message.
C7_NodeAppendsStep ==
    [][(NodeEvent /\ TurnIsOpen)
         => /\ Len(LastGroup(Groups').executionSteps)
                 = Len(LastGroup(Groups).executionSteps) + 1
            /\ LastGroup(Groups').finalMessage = NoMsg]_vars

\* the user answers a clarification question and the reply is accepted
ClarificationReply ==
    /\ SendGesture
    /\ clarificationQuestion # NoQuestion
    /\ lastSend' = <<"sendClarification", "ok">>

\* C8: after a clarification reply the reply has a turn of its own, and no
\* other turn is open.
C8_ReplyIsOnlyOpenTurn ==
    [][ClarificationReply
         => /\ LastGroup(Groups').userMessage = messages'[Len(messages')]
            /\ OpenGroups(Groups') \subseteq {Len(Groups')}]_vars

\* an automatic reconnect succeeds after the connection broke while a turn
\* was open, and nothing else has happened in between
ReconnectMidTurn ==
    /\ ws \in auto
    /\ snap # NoSnap
    /\ SocketOpen(ws)

\* C9: after such a reconnect the log is intact, the turn is still open, and
\* what the UI reads differs from what it read before the break (the turn is
\* flagged as interrupted).
C9_InterruptedTurnFlagged ==
    [][ReconnectMidTurn
         => /\ messages' = snap.messages
            /\ TurnIsOpen'
            /\ UIState' # snap]_vars

\* C10: the grouped view never holds two open groups.
C10_OneOpenTurn == Cardinality(OpenGroups(Groups)) <= 1

LogPos(log, m) == CHOOSE i \in 1..Len(log) : log[i] = m

\* in every group the step numbers are 1, 2, 3, ... and the steps stand in
\* the order in which the log holds them
StepsInLogOrder(gs, log) ==
    \A i \in 1..Len(gs) :
        LET st == steps(gs[i])
        IN /\ Len(st) > 0 => st[1].stepNumber = 1
           /\ \A k \in 1..(Len(st) - 1) :
                 /\ st[k + 1].stepNumber = st[k].stepNumber + 1
                 /\ LogPos(log, st[k].message) < LogPos(log, st[k + 1].message)

\* C12: the step numbers of every group start at 1 and grow by one, the steps
\* stand in log order, and the log holds the messages in arrival order: a task
\* that changes the log either empties it or appends to it.
C12_StepOrdinals ==
    [][/\ StepsInLogOrder(Groups', messages')
       /\ (messages' # messages /\ messages' # <<>>)
            => (/\ Len(messages') > Len(messages)
                /\ SubSeq(messages', 1, Len(messages)) = messages)]_vars

\* a turn of the user closed after three steps
C12_Witness ==
    \E i \in 1..Len(Groups) :
        /\ Groups[i].userMessage # NoMsg
        /\ Len(Groups[i].executionSteps) >= 3
        /\ Groups[i].finalMessage # NoMsg

\* ws.onmessage of socket s with a well-formed error event
ErrorEvent(s) == \E t \in Texts : DeliverEvent(s, [event |-> "error", arg |-> t])

LastMessage(log) == log[Len(log)]

\* C13: an error event received on the service's socket while a turn is open
\* makes the error message the final message of that turn, which is then no
\* longer open, and sets isLoading to false; the sockets and the connection
\* status stay as they were; and the send gesture that follows the error
\* message is accepted and its frame goes out on the service's socket.
C13_ErrorClosesTurn ==
    [][/\ \A s \in SocketIds :
            (ErrorEvent(s) /\ s = ws /\ TurnIsOpen)
                => /\ isLoading' = FALSE
                   /\ includes(LastMessage(messages').text, ErrorMarker)
                   /\ LastGroup(Groups').userMessage = LastGroup(Groups).userMessage
                   /\ LastGroup(Groups').finalMessage = LastMessage(messages')
                   /\ ~Open(LastGroup(Groups'))
                   /\ readyState' = readyState /\ ws' = ws
                   /\ isConnected' = isConnected
                   /\ connectionStatus' = connectionStatus
                   /\ isConnected' /\ ~SocketNotOpen'
       /\ (/\ SendGesture
           /\ messages # <<>>
           /\ includes(LastMessage(messages).text, ErrorMarker)
           /\ ~SocketNotOpen)
            => /\ lastSend' = <<"sendMessage", "ok">>
               /\ LastMessage(messages').isUser
               /\ Len(sent') = Len(sent) + 1
               /\ sent'[Len(sent')].sock = ws]_vars

\* an error closed a turn with a step, and the next message of the user went
\* out on the same socket
C13_Witness ==
    /\ Len(messages) >= 4
    /\ includes(messages[2].text, OutputMarker)
    /\ includes(messages[3].text, ErrorMarker)
    /\ messages[4].isUser
    /\ Len(sent) = 2
    /\ sent[1].sock = sent[2].sock
    /\ connectionStatus = "connected"

\* the turns of the user that have a final message
ClosedTurns(gs) ==
    {i \in 1..Len(gs) : gs[i].userMessage # NoMsg /\ gs[i].finalMessage # NoMsg}

\* ws.onmessage of some socket with some frame
AnyEvent == \E s \in SocketIds, e \in Events : DeliverEvent(s, e)

\* C14: an event leaves every closed turn as it was: its steps, its final
\* message, its artifacts and its activity flag.
C14_ClosedTurnImmutable ==
    [][AnyEvent => \A i \in ClosedTurns(Groups) :
                      /\ i <= Len(Groups')
                      /\ Groups'[i] = Groups[i]]_vars

\* ws.onmessage of socket s with a frame that is not JSON, or with one whose
\* event is none of the known ones
UndecodableFrame(s) ==
    \/ DeliverEvent(s, NotJSON)
    \/ \E t \in Texts : DeliverEvent(s, [event |-> "unknown", arg |-> t])

\* C15: such a frame changes nothing: not the sockets, not the connection
\* status, not the log, the artifacts, isLoading, the clarification question,
\* the current node or the upload tasks; so the socket it came on stays open
\* and its handler takes the next frame.
C15_UndecodableFrameIgnored ==
    [][\A s \in SocketIds :
          UndecodableFrame(s)
              => /\ readyState' = readyState /\ ws' = ws
                 /\ isConnected' = isConnected
                 /\ connectionStatus' = connectionStatus
                 /\ messages' = messages
                 /\ artifacts' = artifacts /\ activeArtifact' = activeArtifact
                 /\ isLoading' = isLoading
                 /\ clarificationQuestion' = clarificationQuestion
                 /\ currentNode' = currentNode
                 /\ fileUploads' = fileUploads]_vars

\* the frame's task ends in the state it started in; it runs here in the
\* middle of a turn, between two steps
C15_Witness ==
    /\ ws # NoSocket /\ readyState[ws] = "OPEN"
    /\ mounted /\ isLoading
    /\ NotJSON.event \in bound.events /\ "unknown" \in bound.events
    /\ Len(messages) = 2
    /\ isExecutionStep(messages[2])
    /\ currentNode # NoNode

\* ws.onmessage of socket s with a frame of a known event that lacks its
\* payload field
MalformedFrame(s) == \E e \in Events : Malformed(e) /\ DeliverEvent(s, e)

\* C16: a frame of a known event without its payload field appends no message
\* and changes neither isLoading, nor the clarification question, nor the
\* current node.
C16_MalformedFrameIgnored ==
    [][\A s \in SocketIds :
          MalformedFrame(s)
              => /\ messages' = messages
                 /\ isLoading' = isLoading
                 /\ clarificationQuestion' = clarificationQuestion
                 /\ currentNode' = currentNode]_vars

\* the extension of a file name: what follows its last dot, in lower case; a
\* name without a dot has none
NoExtension == <<>>
Extension(name) ==
    IF Len(name) >= 2 THEN <<".", toLowerCase(name[Len(name)])>> ELSE NoExtension

\* C17: validateFile returns a result and changes nothing else; the result is
\* valid exactly when the file's extension is in the allow-list and its size
\* is at most the maximum, and carries an error exactly when it is not valid.
C17_ValidateFile ==
    validation # NoValidation
        => /\ validation.valid
                <=> /\ Extension(candidate.name) \in getSupportedFileTypes
                    /\ candidate.size <= getMaxFileSize
           /\ validation.valid <=> validation.error = NoError

\* the files of a batch whose read succeeded, in the batch's order
ReadFiles(files, results) ==
    LET idx == SelectSeq([i \in 1..Len(files) |-> i], LAMBDA i : results[i])
    IN [k \in 1..Len(idx) |-> files[idx[k]]]

CallCount(calls, cb) == Cardinality({k \in 1..Len(calls) : calls[k].cb = cb})

\* C18: when uploadFiles has gone through a batch, every file of it was read;
\* each file whose read failed was reported through the error callback with
\* its own name and the error processFile threw for it, each other file
\* through the complete callback, no callback was made twice, and the
\* user_message sent on the open socket carries exactly the files whose read
\* succeeded, in the batch's order.
C18_PerFileIndependence ==
    [][\A ok \in BOOLEAN :
          (FileRead(ok) /\ upload'.done)
              => LET files == upload'.files
                     results == upload'.results
                     calls == upload'.calls
                 IN /\ Len(results) = Len(files)
                    /\ results[Len(files)] = ok
                    /\ \A i \in 1..Len(files) :
                          IF results[i]
                          THEN \E k \in 1..Len(calls) :
                                  /\ calls[k].cb = "complete"
                                  /\ calls[k].name = files[i].name
                          ELSE \E k \in 1..Len(calls) :
                                  /\ calls[k].cb = "error"
                                  /\ calls[k].name = files[i].name
                                  /\ calls[k].arg = ReadErrorMessage(files[i])
                    /\ CallCount(calls, "complete")
                           = Cardinality({i \in 1..Len(files) : results[i]})
                    /\ CallCount(calls, "error")
                           = Cardinality({i \in 1..Len(files) : ~results[i]})
                    /\ ~SocketNotOpen
                           => sent' = Append(sent, [sock |-> ws, text |-> upload.text,
                                                    files |-> ReadFiles(files, results)])
                    /\ SocketNotOpen => sent' = sent]_vars

\* a batch of two whose first read failed: the second file went out alone
C18_Witness ==
    /\ upload # NoUpload /\ upload.done
    /\ upload.results = <<FALSE, TRUE>>
    /\ Len(sent) = 1
    /\ sent[1].files = <<upload.files[2]>>
    /\ upload.calls[2].cb = "error" /\ upload.calls[2].name = upload.files[1].name
    /\ upload.calls[Len(upload.calls)].cb = "complete"

\* C19: when the read of a file fails, the tasks of that file are set to
\* error with the read's error, and every other task of the list, also one
\* of another file with the same name, stays as it was.
C19_ErrorMarksOneTask ==
    [][(FileRead(FALSE) /\ mounted)
          => LET file == upload.files[upload.next]
             IN /\ Len(fileUploads') = Len(fileUploads)
                /\ \A i \in 1..Len(fileUploads) :
                      IF fileUploads[i].file = file
                      THEN /\ fileUploads'[i].status = "error"
                           /\ fileUploads'[i].error = ReadErrorMessage(file)
                      ELSE fileUploads'[i] = fileUploads[i]]_vars

\* the chat connectToChat opened socket s for, in runs where every chat comes
\* from addNewChat: each addNewChat creates one socket, the timer the others
ChatOf(s) == Cardinality({t \in 1..s : t \notin auto})

\* C20: addNewChat makes a socket that did not exist the current one, and an
\* event on a socket that connectToChat opened for another chat than the
\* active one changes neither the log nor the session state.
C20_NoCrossSessionEvents ==
    [][/\ addNewChat => (ws' # ws /\ readyState[ws'] = "NONE")
       /\ \A s \in SocketIds :
             ((\E e \in Events : DeliverEvent(s, e))
                 /\ s \notin auto /\ ChatOf(s) # activeChat)
                 => /\ messages' = messages
                    /\ isLoading' = isLoading
                    /\ clarificationQuestion' = clarificationQuestion
                    /\ currentNode' = currentNode]_vars

\* where the callbacks of the i-th file of a batch start in the sequence of
\* the callbacks made: two for a file whose read failed, three for another
CallStart(results, i) == 1 + 2 * (i - 1) + Cardinality({j \in 1..(i - 1) : results[j]})

\* C21: the callbacks uploadFiles has made are, file by file in the batch's
\* order: progress 0, made before the file's read ends; then progress 100 and
\* complete for a file that was read, or error alone for a file whose read
\* failed; and no other callback.
C21_CallbackOrder ==
    [][/\ upload' # NoUpload
          => LET files == upload'.files
                 results == upload'.results
                 calls == upload'.calls
                 read == Len(results)
                 started == IF upload'.done THEN read ELSE read + 1
             IN /\ Len(calls) = CallStart(results, read + 1) - 1 + (started - read)
                /\ \A i \in 1..started :
                      LET at == CallStart(results, i)
                      IN /\ calls[at] = [cb |-> "progress", name |-> files[i].name,
                                         arg |-> <<0>>]
                         /\ (i <= read /\ results[i])
                               => /\ calls[at + 1] = [cb |-> "progress",
                                                      name |-> files[i].name,
                                                      arg |-> <<100>>]
                                  /\ calls[at + 2] = [cb |-> "complete",
                                                      name |-> files[i].name,
                                                      arg |-> <<>>]
                         /\ (i <= read /\ ~results[i])
                               => /\ calls[at + 1].cb = "error"
                                  /\ calls[at + 1].name = files[i].name
       /\ \A ok \in BOOLEAN :
             FileRead(ok)
                => upload.calls[Len(upload.calls)]
                      = [cb |-> "progress", name |-> upload.files[upload.next].name,
                         arg |-> <<0>>]]_vars

\* a batch of two: the first file was read, the read of the second failed
C21_Witness ==
    /\ upload # NoUpload /\ upload.done
    /\ upload.results = <<TRUE, FALSE>>
    /\ Len(upload.calls) = 5
    /\ upload.calls[3].cb = "complete"
    /\ upload.calls[5].cb = "error"

\* a clarify event was delivered and the entry that shows its question is not
\* in the log yet
ClarificationOutstanding == clarificationQuestion # NoQuestion /\ ~pendingClarification

\* C22: an event's entries are appended at the end of the log, and no event
\* delivered after a clarify event gets an entry into the log before the
\* entry of that clarification.
C22_DeliveryOrder ==
    [][AnyEvent
          => /\ Len(messages') >= Len(messages)
             /\ SubSeq(messages', 1, Len(messages)) = messages
             /\ ClarificationOutstanding => messages' = messages]_vars

Range(seq) == {seq[i] : i \in 1..Len(seq)}

\* C23: an artifact is in the artifact list of a group exactly when the
\* message that produced it is one of that group's steps, for every turn of
\* the user: closed, suspended or still open.
C23_ArtifactsOfTurn ==
    \A k \in 1..Len(artifacts), i \in 1..Len(Groups) :
        Groups[i].userMessage # NoMsg
            => (artifacts[k] \in Range(Groups[i].artifacts)
                    <=> artifacts[k].messageId \in StepIds(Groups[i]))

\* C24: every artifact of the artifact list has the id of a message of the
\* log as its messageId.
C24_ArtifactHasMessage ==
    \A k \in 1..Len(artifacts) :
        \E i \in 1..Len(messages) : messages[i].id = artifacts[k].messageId

\* C25: activeArtifact is null or the id of an artifact of the artifact list.
C25_ActiveArtifactListed ==
    \/ activeArtifact = NoArtifact
    \/ \E k \in 1..Len(artifacts) : artifacts[k].id = activeArtifact

\* the places message m has in the groups gs: <<i, "user">>, <<i, "final">>
\* or <<i, "step", j>>
Places(gs, m) ==
    {<<i, "user">> : i \in {i \in 1..Len(gs) : gs[i].userMessage = m}}
    \cup {<<i, "final">> : i \in {i \in 1..Len(gs) : gs[i].finalMessage = m}}
    \cup UNION {{<<i, "step", j>> : j \in {j \in 1..Len(gs[i].executionSteps) :
                                              gs[i].executionSteps[j] = m}} :
                i \in 1..Len(gs)}

\* C26: in the groups the grouper returns for a log, every message of the log
\* has exactly one place.
C26_EveryMessageOnce ==
    \A r \in 1..Len(view), i \in 1..Len(messages) :
        Cardinality(Places(view[r], messages[i])) = 1

\* where the first message of group g is in the log; 0 for a group that
\* holds no message
FirstPos(g, log) ==
    LET at == {i \in 1..Len(log) :
                  \/ g.userMessage = log[i]
                  \/ g.finalMessage = log[i]
                  \/ \E j \in 1..Len(g.executionSteps) : g.executionSteps[j] = log[i]}
    IN IF at = {} THEN 0 ELSE CHOOSE i \in at : \A j \in at : i <= j

\* C27: of two groups the grouper returns, the one whose first message comes
\* first in the log comes first in the list.
C27_GroupsInLogOrder ==
    \A r \in 1..Len(view) :
        \A a, b \in 1..Len(view[r]) :
            LET pa == FirstPos(view[r][a], messages)
                pb == FirstPos(view[r][b], messages)
            IN (pa > 0 /\ pb > 0 /\ pa < pb) => a < b

\* no socket has an open or a close event to come and no reconnect timer is
\* scheduled
Quiescent ==
    /\ \A s \in SocketIds : readyState[s] \notin {"CONNECTING", "CLOSING"}
    /\ timers = 0

\* C28: when nothing is pending, the mounted context says connected exactly
\* when the service's current socket is OPEN.
C28_StatusAgreesWithService ==
    (mounted /\ Quiescent)
        => ((isConnected /\ connectionStatus = "connected") <=> ServiceIsConnected)

\* the last read of a batch ends and the service's socket is absent or not
\* OPEN: the service's sendMessage cannot transmit the message
TransmitFails == (\E ok \in BOOLEAN : FileRead(ok)) /\ upload'.done /\ SocketNotOpen

\* C29: when the service fails to transmit a submitted message, isLoading is
\* set to false and one entry, the failure notice, is appended to the log.
C29_FailedSendEndsLoading ==
    [][TransmitFails
          => /\ sent' = sent
             /\ isLoading' = FALSE
             /\ Len(messages') = Len(messages) + 1
             /\ ~messages'[Len(messages')].isUser]_vars

\* C30: the message of a submission with files goes out, if at all, on the
\* socket the service's guard found OPEN at submission, and that socket is
\* then still the current one and still OPEN; when it is not, nothing is sent
\* and the promise of the service's sendMessage is rejected.
C30_SentOnCheckedSocket ==
    [][\A ok \in BOOLEAN :
          (FileRead(ok) /\ upload'.done)
              => IF ws = upload.sock /\ readyState[upload.sock] = "OPEN"
                 THEN /\ Len(sent') = Len(sent) + 1
                      /\ sent'[Len(sent')].sock = upload.sock
                 ELSE /\ sent' = sent
                      /\ upload'.promise = "rejected"]_vars

\* ------------------------------------------------------- specifications
EventKinds == {e.event : e \in Events}

\* connection runs: the socket lifecycle alone
NextConn ==
    \/ addNewChat
    \/ \E c \in 1..MaxChats : handleSetActiveChat(c)
    \/ \E s \in SocketIds : SocketOpen(s)
    \/ \E s \in SocketIds : SocketFail(s)
    \/ \E s \in SocketIds, code \in CloseCodes : SocketDrop(s, code)
    \/ \E s \in SocketIds : SocketClosed(s)
    \/ ReconnectTimer
    \/ Unmount

InitConn ==
    InitWith([socks |-> MaxSockets, msgs |-> 0, events |-> {}, peer |-> "any",
              malformed |-> FALSE, batches |-> {<<>>}, chats |-> MaxChats])

SpecConn == InitConn /\ [][NextConn]_vars

\* session runs: one or two chats on few sockets and a short log; the peer
\* sends an event at any time: the one that asks the user and the one that
\* ends the wait. The events of the steps in between are left to the turn
\* runs.
SessionEventKinds == {"clarify", "answer"}

Next ==
    \/ addNewChat
    \/ \E s \in SocketIds : SocketOpen(s)
    \/ \E s \in SocketIds : SocketFail(s)
    \/ \E s \in SocketIds, code \in CloseCodes : SocketDrop(s, code)
    \/ \E s \in SocketIds : SocketClosed(s)
    \/ ReconnectTimer
    \/ Unmount
    \/ \E s \in SocketIds, e \in Events : DeliverEvent(s, e)
    \/ \E text \in UserTexts, files \in Batches : handleSendMessage(text, files)
    \/ ClarificationEffect

Init == InitWith([socks |-> MaxSessSockets, msgs |-> MaxSessMsgs,
                  events |-> SessionEventKinds, peer |-> "any",
                  malformed |-> FALSE, batches |-> {<<>>}, chats |-> MaxChats])

Spec == Init /\ [][Next]_vars

\* turn runs: one chat on one socket and a longer log; the peer sends events,
\* of every kind, only while a request is outstanding
TurnEventKinds == EventKinds

NextTurn ==
    \/ addNewChat
    \/ \E s \in SocketIds : SocketOpen(s)
    \/ \E s \in SocketIds, e \in Events : DeliverEvent(s, e)
    \/ \E text \in UserTexts, files \in Batches : handleSendMessage(text, files)
    \/ ClarificationEffect

InitTurn ==
    InitWith([socks |-> 1, msgs |-> MaxMsgId, events |-> TurnEventKinds, peer |-> "replies",
              malformed |-> FALSE, batches |-> {<<>>}, chats |-> MaxChats])

SpecTurn == InitTurn /\ [][NextTurn]_vars

\* chat-switch runs: the user starts a second chat while the first chat's
\* socket is connecting or open; the peer sends an event at any time
MaxSwitchMsgs == 2

NextSwitch ==
    \/ addNewChat
    \/ \E s \in SocketIds : SocketOpen(s)
    \/ \E s \in SocketIds, e \in Events : DeliverEvent(s, e)
    \/ \E text \in UserTexts, files \in Batches : handleSendMessage(text, files)

InitSwitch ==
    InitWith([socks |-> MaxChats, msgs |-> MaxSwitchMsgs,
              events |-> {"node", "code", "answer"}, peer |-> "any", malformed |-> FALSE, batches |-> {<<>>},
              chats |-> MaxChats])

SpecSwitch == InitSwitch /\ [][NextSwitch]_vars

\* replaced-socket runs: the user attaches files to a message and starts a
\* second chat while they are being read; the peer is silent
MaxReplaceMsgs == 1

NextReplace ==
    \/ addNewChat
    \/ \E s \in SocketIds : SocketOpen(s)
    \/ \E s \in SocketIds : SocketClosed(s)
    \/ \E text \in UserTexts, files \in Batches : handleSendMessage(text, files)
    \/ \E ok \in BOOLEAN : FileRead(ok)

InitReplace ==
    InitWith([socks |-> MaxChats, msgs |-> MaxReplaceMsgs, events |-> {}, peer |-> "any",
              malformed |-> FALSE, batches |-> Batches, chats |-> MaxChats])

SpecReplace == InitReplace /\ [][NextReplace]_vars

\* late-event runs: one chat on one socket; the peer sends steps, answers and
\* errors at any time, also when no request is outstanding
MaxLateMsgs == 3

LateEventKinds == {"code", "sandbox.stdout", "answer", "error"}

NextLate ==
    \/ addNewChat
    \/ \E s \in SocketIds : SocketOpen(s)
    \/ \E s \in SocketIds, e \in Events : DeliverEvent(s, e)
    \/ \E text \in UserTexts, files \in Batches : handleSendMessage(text, files)

InitLate ==
    InitWith([socks |-> 1, msgs |-> MaxLateMsgs, events |-> LateEventKinds, peer |-> "any",
              malformed |-> FALSE, batches |-> {<<>>}, chats |-> MaxChats])

SpecLate == InitLate /\ [][NextLate]_vars

\* malformed-frame runs: one chat on one socket; the peer also sends frames
\* of known events without their payload field
MaxMalformedMsgs == 3

NextMalformed ==
    \/ addNewChat
    \/ \E s \in SocketIds : SocketOpen(s)
    \/ \E s \in SocketIds, e \in Events : DeliverEvent(s, e)
    \/ \E text \in UserTexts, files \in Batches : handleSendMessage(text, files)

InitMalformed ==
    InitWith([socks |-> 1, msgs |-> MaxMalformedMsgs,
              events |-> {"node", "clarify", "code", "sandbox.stdout", "answer", "error"},
              peer |-> "replies", malformed |-> TRUE, batches |-> {<<>>}, chats |-> MaxChats])

SpecMalformed == InitMalformed /\ [][NextMalformed]_vars

\* runs without a connection
NoRun == [socks |-> 0, msgs |-> 0, events |-> {}, peer |-> "any", malformed |-> FALSE,
          batches |-> {<<>>}, chats |-> 0]

\* validation runs: handleFileSelect is handed one file of any name and size
InitValidate ==
    /\ InitCommon(NoRun)
    /\ messages = <<>>
    /\ nextMsgId = 1
    /\ artifacts = <<>>
    /\ candidate \in CandidateFiles

NextValidate == handleFileSelect

SpecValidate == InitValidate /\ [][NextValidate]_vars

\* upload runs: one chat on one socket, which the peer can drop; the user
\* attaches up to MaxBatch files to a message and the peer answers while a
\* request is outstanding
MaxUploadMsgs == 2

UploadRunEventKinds == {"answer"}

NextUpload ==
    \/ addNewChat
    \/ \E s \in SocketIds : SocketOpen(s)
    \/ \E s \in SocketIds, code \in CloseCodes : SocketDrop(s, code)
    \/ \E s \in SocketIds, e \in Events : DeliverEvent(s, e)
    \/ \E text \in UserTexts, files \in Batches : handleSendMessage(text, files)
    \/ \E ok \in BOOLEAN : FileRead(ok)
    \/ ClearCompletedUploads

InitUpload ==
    InitWith([socks |-> 1, msgs |-> MaxUploadMsgs, events |-> UploadRunEventKinds,
              peer |-> "replies", malformed |-> FALSE, batches |-> Batches,
              chats |-> MaxChats])

SpecUpload == InitUpload /\ [][NextUpload]_vars

\* grouper runs: the grouper applied to a log and an artifact list of any shape
MaxLogLen == 4

LogData ==
    {FromUser(<<"build report">>), Plain(<<OutputMarker, "done">>),
     WithArtifact(<<CodeMarker>>), Plain(<<"done">>),
     Plain(<<ClarifyNeededMarker, "which region?">>)}

Log(datas) == [i \in 1..Len(datas) |-> NewMessage(i, datas[i])]

InitGrouper ==
    /\ InitCommon(NoRun)
    /\ \E datas \in UNION {[1..n -> LogData] : n \in 0..MaxLogLen} :
          /\ messages = Log(datas)
          /\ nextMsgId = Len(datas) + 1
          /\ artifacts \in {NewArtifacts(1, datas), <<>>}
    /\ candidate = NoFile

NextGrouper == Render

SpecGrouper == InitGrouper /\ [][NextGrouper]_vars

TypeOK ==
    /\ ws \in {NoSocket} \cup SocketIds
    /\ readyState \in [SocketIds -> ReadyStates]
    /\ reconnectAttempts \in 0..maxReconnectAttempts
    /\ timers \in Nat
    /\ connectionStatus \in {"disconnected", "connecting", "connected", "error"}
====
